---- MODULE Spec2Model ----
(***************************************************************************)
(* trydan2mqtt: the bridge between a Trydan EV charger and an MQTT broker  *)
(* (src/src/trydan2mqtt.py), as a state machine.                           *)
(*                                                                         *)
(* Three flows of control act on one TrydanMQTTBridge object:              *)
(*   - the asyncio event loop of the main thread, which runs main(), the   *)
(*     run() coroutine and _handle_command coroutines;                     *)
(*   - the network thread that mqtt_client.loop_start() starts, on which   *)
(*     the bus client invokes the on_connect / on_disconnect / on_message  *)
(*     callbacks;                                                          *)
(*   - the SIGINT/SIGTERM handler, which the interpreter runs in the main  *)
(*     thread between two bytecodes.                                       *)
(*                                                                         *)
(* run() is cut at its await points and at its blocking calls: every       *)
(* action below is the code between two of them.                           *)
(***************************************************************************)
EXTENDS Integers, Sequences, FiniteSets, TLC

VARIABLES
    pc,          \* position of main()/run(): see PcValues
    exitCode,    \* <<>> while the process lives, <<0>> or <<1>> once it has exited
    running,     \* self.running
    trydan,      \* self.trydan: "None" or "client"
    mqtt_client, \* self.mqtt_client: "None" or "client"
    loop,        \* the bus client's network thread: "idle", "started", "stopped"
    link,        \* the broker session as the network thread sees it
    busCalls,    \* calls made on the bus client other than telemetry publishes, in order
    cycles,      \* device reads the poll loop has completed
    failStreak,  \* consecutive failed reads up to now
    dataCount,   \* <prefix>/data messages published so far
    busEvents,   \* on_connect/on_disconnect callbacks delivered so far
    termRequested, \* a termination signal has been delivered
    deviceConnected, \* what _connect_trydan returned: "unknown", "yes", "no"
    last         \* the operation executed by the latest step and what it did

vars == <<pc, exitCode, running, trydan, mqtt_client, loop, link, busCalls,
          cycles, failStreak, dataCount, busEvents, termRequested, deviceConnected,
          last>>

-----------------------------------------------------------------------------
(* Bounds of the model *)

MaxCycles == 2
MaxBusEvents == 3

-----------------------------------------------------------------------------
(* Sequence helpers *)

Last(s) == s[Len(s)]

Count(s, P(_)) == Len(SelectSeq(s, P))

RECURSIVE SplitAt(_, _, _, _)
\* str.split(sep) over a sequence of symbols: the segments between separators
SplitAt(s, sep, i, cur) ==
    IF i > Len(s) THEN <<cur>>
    ELSE IF s[i] = sep THEN <<cur>> \o SplitAt(s, sep, i + 1, <<>>)
    ELSE SplitAt(s, sep, i + 1, Append(cur, s[i]))

Split(s, sep) == SplitAt(s, sep, 1, <<>>)

RECURSIVE Concat(_)
\* the string a sequence of symbols spells
Concat(s) == IF s = <<>> THEN "" ELSE s[1] \o Concat(Tail(s))

-----------------------------------------------------------------------------
(* Configuration (the resolved YAML document) *)

RequiredSections == <<"trydan", "mqtt", "bridge">>

\* mqtt.topic_prefix of the configuration
TopicPrefix == "trydan"

\* The documents main() may be started with: the top-level sections present.
Configs == { {"trydan", "mqtt", "bridge"}, {"trydan", "mqtt", "bridge", "logging"},
             {"trydan", "mqtt"}, {"mqtt", "bridge"}, {} }

\* _load_config that requires the 'trydan' and 'mqtt' sections only
LoadConfig_TwoSections(config) ==
    IF \E i \in 1..2 : RequiredSections[i] \notin config
    THEN "ValueError"
    ELSE "ok"

\* _load_config: "ok", or "ValueError" at the first required section missing
LoadConfig(config) ==
    IF \E i \in 1..Len(RequiredSections) : RequiredSections[i] \notin config
    THEN "ValueError"
    ELSE "ok"

-----------------------------------------------------------------------------
(* Python values and their conversions *)

PyInt(n)  == [t |-> "int",  i |-> n, b |-> FALSE, s |-> ""]
PyBool(x) == [t |-> "bool", i |-> 0, b |-> x,     s |-> ""]
PyText(x) == [t |-> "str",  i |-> 0, b |-> FALSE, s |-> x]

\* str(value)
PyStr(val) ==
    CASE val.t = "int"  -> ToString(val.i)
      [] val.t = "bool" -> (IF val.b THEN "True" ELSE "False")
      [] val.t = "str"  -> val.s

\* json.dumps(value) of a scalar
JsonScalar(val) ==
    CASE val.t = "int"  -> ToString(val.i)
      [] val.t = "bool" -> (IF val.b THEN "true" ELSE "false")
      [] val.t = "str"  -> "\"" \o val.s \o "\""

RECURSIVE JsonMembers(_)
JsonMembers(data) ==
    IF data = <<>> THEN ""
    ELSE "\"" \o data[1][1] \o "\": " \o JsonScalar(data[1][2])
         \o (IF Len(data) > 1 THEN ", " ELSE "") \o JsonMembers(Tail(data))

\* json.dumps(data) of a dict, in insertion order
JsonDumps(data) == "{" \o JsonMembers(data) \o "}"

\* datetime.now().isoformat() when the clock reads `now`
IsoFormat(now) == "T" \o ToString(now)

-----------------------------------------------------------------------------
(* Log records *)

Log(level, msg) == [level |-> level, msg |-> msg]

-----------------------------------------------------------------------------
(* The device side: reading a snapshot *)

\* What trydan.get_data() may return: the attributes _read_trydan_data maps
\* (four of the twenty of the source, one of each scalar type).
DeviceData ==
    { [charge_state |-> PyInt(1), charge_power |-> PyInt(10),
       locked |-> PyBool(FALSE), firmware_version |-> PyText("1.6")],
      [charge_state |-> PyInt(2), charge_power |-> PyInt(0),
       locked |-> PyBool(TRUE), firmware_version |-> PyText("1.6")] }

\* _read_trydan_data that returns what it has built when get_data() fails
ReadTrydanData_Partial(dev, outcome, d, now) ==
    IF dev = "None" THEN [data |-> <<>>, log |-> <<>>]
    ELSE IF outcome # "ok"
    THEN [data |-> << <<"timestamp", PyText(IsoFormat(now))>> >>,
          log |-> <<Log("error", "Error reading Trydan data")>>]
    ELSE [data |-> << <<"timestamp", PyText(IsoFormat(now))>>,
                      <<"status", d.charge_state>>,
                      <<"charging_power", d.charge_power>>,
                      <<"locked", d.locked>>,
                      <<"firmware_version", d.firmware_version>> >>,
          log |-> <<>>]

\* _read_trydan_data: the dict it returns, in insertion order, as a sequence of
\* <<key, value>>; <<>> stands for None. outcome is what get_data() does.
ReadTrydanData(dev, outcome, d, now) ==
    IF dev = "None" THEN [data |-> <<>>, log |-> <<>>]
    ELSE IF outcome # "ok"
    THEN [data |-> <<>>, log |-> <<Log("error", "Error reading Trydan data")>>]
    ELSE [data |-> << <<"timestamp", PyText(IsoFormat(now))>>,
                      <<"status", d.charge_state>>,
                      <<"charging_power", d.charge_power>>,
                      <<"locked", d.locked>>,
                      <<"firmware_version", d.firmware_version>> >>,
          log |-> <<>>]

-----------------------------------------------------------------------------
(* The bus side: publishing *)

\* one mqtt_client.publish(topic, payload, retain=...) call and whether it raised
Msg(topic, payload, retain, raised) ==
    [topic |-> topic, payload |-> payload, retain |-> retain, raised |-> raised]

IsPublished(m) == ~m.raised
IsData(m) == m.topic = TopicPrefix \o "/data" /\ ~m.raised
IsSensor(m) == m.topic # TopicPrefix \o "/data" /\ ~m.raised

RECURSIVE PublishFields_All(_, _, _, _)
\* the for loop of _publish_data without the test that leaves 'timestamp' out
PublishFields_All(data, i, k, failAt) ==
    IF i > Len(data) THEN <<>>
    ELSE IF k + 1 = failAt
         THEN << Msg(TopicPrefix \o "/sensor/" \o data[i][1], PyStr(data[i][2]), TRUE, TRUE) >>
         ELSE << Msg(TopicPrefix \o "/sensor/" \o data[i][1], PyStr(data[i][2]), TRUE, FALSE) >>
              \o PublishFields_All(data, i + 1, k + 1, failAt)

RECURSIVE PublishFields(_, _, _, _)
\* the for loop of _publish_data from item i on, k publish calls made before it;
\* the failAt-th publish call raises and ends the loop
PublishFields(data, i, k, failAt) ==
    IF i > Len(data) THEN <<>>
    ELSE IF data[i][1] = "timestamp" THEN PublishFields(data, i + 1, k, failAt)
    ELSE IF k + 1 = failAt
         THEN << Msg(TopicPrefix \o "/sensor/" \o data[i][1], PyStr(data[i][2]), TRUE, TRUE) >>
         ELSE << Msg(TopicPrefix \o "/sensor/" \o data[i][1], PyStr(data[i][2]), TRUE, FALSE) >>
              \o PublishFields(data, i + 1, k + 1, failAt)

\* the number of per-field publish calls of a snapshot
NumSensors(data) == Len(SelectSeq(data, LAMBDA kv : kv[1] # "timestamp"))

\* _publish_data that publishes the JSON document first and the fields after it
PublishData_DataFirst(client, data, failAt) ==
    IF client = "None" \/ data = <<>> THEN [msgs |-> <<>>, log |-> <<>>]
    ELSE LET fields == PublishFields(data, 1, 0, failAt)
             n == NumSensors(data)
             err == <<Log("error", "Error publishing data to MQTT")>>
             doc == Msg(TopicPrefix \o "/data", JsonDumps(data), TRUE, FALSE)
         IN  IF failAt \in 1..n THEN [msgs |-> <<doc>> \o fields, log |-> err]
             ELSE IF failAt = n + 1 THEN [msgs |-> fields, log |-> err]
             ELSE IF failAt = n + 2
             THEN [msgs |-> <<Msg(TopicPrefix \o "/data", JsonDumps(data), TRUE, TRUE)>>,
                   log |-> err]
             ELSE [msgs |-> <<doc>> \o fields,
                   log |-> <<Log("debug", "Published data to MQTT")>>]

\* _publish_data(data): the publish calls it makes and what it logs. failAt = 0:
\* nothing raises; 1..n: that per-field publish raises; n+1: json.dumps raises;
\* n+2: the publish of <prefix>/data raises (n = NumSensors(data)).
PublishData(client, data, failAt) ==
    IF client = "None" \/ data = <<>> THEN [msgs |-> <<>>, log |-> <<>>]
    ELSE LET fields == PublishFields(data, 1, 0, failAt)
             n == NumSensors(data)
             err == <<Log("error", "Error publishing data to MQTT")>>
         IN  IF failAt \in 1..n THEN [msgs |-> fields, log |-> err]
             ELSE IF failAt = n + 1 THEN [msgs |-> fields, log |-> err]
             ELSE IF failAt = n + 2
             THEN [msgs |-> Append(fields, Msg(TopicPrefix \o "/data", JsonDumps(data), TRUE, TRUE)),
                   log |-> err]
             ELSE [msgs |-> Append(fields, Msg(TopicPrefix \o "/data", JsonDumps(data), TRUE, FALSE)),
                   log |-> <<Log("debug", "Published data to MQTT")>>]

\* a call on the bus client other than a telemetry publish
BusCall(op, arg, retain, raised) ==
    [op |-> op, arg |-> arg, retain |-> retain, raised |-> raised]

\* _publish_availability with the two payloads exchanged
PublishAvailability_Swapped(client, available, raises) ==
    IF client = "None" THEN [calls |-> <<>>, log |-> <<>>]
    ELSE [calls |-> << BusCall("publish", IF available THEN "offline" ELSE "online",
                               TRUE, raises) >>,
          log |-> IF raises THEN <<Log("error", "Error publishing availability")>>
                  ELSE <<>>]

\* _publish_availability(available): the call it makes on the bus client and
\* what it logs; raises: mqtt_client.publish raises
PublishAvailability(client, available, raises) ==
    IF client = "None" THEN [calls |-> <<>>, log |-> <<>>]
    ELSE [calls |-> << BusCall("publish", IF available THEN "online" ELSE "offline",
                               TRUE, raises) >>,
          log |-> IF raises THEN <<Log("error", "Error publishing availability")>>
                  ELSE <<>>]

-----------------------------------------------------------------------------
(* Commands: payload coercion and dispatch *)

Digits == <<"0", "1", "2", "3", "4", "5", "6", "7", "8", "9">>

IsDigit(c) == \E i \in 1..Len(Digits) : Digits[i] = c

DigitVal(c) == (CHOOSE i \in 1..Len(Digits) : Digits[i] = c) - 1

RECURSIVE DigitsVal(_, _)
\* the number a run of decimal digits spells, acc being the value read so far
DigitsVal(s, acc) ==
    IF s = <<>> THEN acc ELSE DigitsVal(Tail(s), acc * 10 + DigitVal(s[1]))

AllDigits(s) == \A i \in 1..Len(s) : IsDigit(s[i])

\* int(float(payload)) for a payload over the characters 0-9 . + - and letters:
\* an optional sign, digits with at most one point and at least one digit; the
\* fraction is cut off (truncation toward zero). Anything else is a ValueError.
IntFloat(payload) ==
    LET signed == payload # <<>> /\ payload[1] \in {"+", "-"}
        body == IF signed THEN Tail(payload) ELSE payload
        dots == { i \in 1..Len(body) : body[i] = "." }
        dot == IF dots = {} THEN Len(body) + 1
               ELSE CHOOSE i \in dots : \A j \in dots : i <= j
        whole == SubSeq(body, 1, dot - 1)
        frac == SubSeq(body, dot + 1, Len(body))
        ok == AllDigits(whole) /\ AllDigits(frac) /\ Len(whole) + Len(frac) >= 1
        mag == DigitsVal(whole, 0)
    IN  IF ~ok THEN [ok |-> FALSE, n |-> 0]
        ELSE [ok |-> TRUE, n |-> IF signed /\ payload[1] = "-" THEN 0 - mag ELSE mag]

\* one write call on the device client
DevCall(op, args) == [op |-> op, args |-> args]

WriteOps == {"intensity", "pause", "resume", "lock", "unlock"}

KnownCommands == {"set_charge_current", "pause_charge", "resume_charge", "lock", "unlock"}

\* the device call of a command that takes no argument from the payload
SimpleCall(command) ==
    CASE command = "pause_charge"  -> DevCall("pause", <<PyBool(TRUE)>>)
      [] command = "resume_charge" -> DevCall("resume", <<>>)
      [] command = "lock"          -> DevCall("lock", <<>>)
      [] command = "unlock"        -> DevCall("unlock", <<>>)

SimpleInfo(command) ==
    CASE command = "pause_charge"  -> "Paused charging"
      [] command = "resume_charge" -> "Resumed charging"
      [] command = "lock"          -> "Locked charger"
      [] command = "unlock"        -> "Unlocked charger"

\* _handle_command whose last branch is taken for "unlock" and anything else
HandleCommand_Fallthrough(dev, command, payload, devRaises) ==
    LET failed == <<Log("error", "Error handling command")>>
    IN  IF dev = "None"
        THEN [calls |-> <<>>, log |-> <<Log("error", "Trydan device not connected")>>]
        ELSE IF command = "set_charge_current"
        THEN LET current == IntFloat(payload)
             IN  IF ~current.ok THEN [calls |-> <<>>, log |-> failed]
                 ELSE [calls |-> <<DevCall("intensity", <<PyInt(current.n)>>)>>,
                       log |-> IF devRaises THEN failed
                               ELSE <<Log("info", "Set charge current")>>]
        ELSE IF command \in {"pause_charge", "resume_charge", "lock"}
        THEN [calls |-> <<SimpleCall(command)>>,
              log |-> IF devRaises THEN failed ELSE <<Log("info", SimpleInfo(command))>>]
        ELSE [calls |-> <<DevCall("unlock", <<>>)>>,
              log |-> IF devRaises THEN failed ELSE <<Log("info", "Unlocked charger")>>]

\* _handle_command that does not await the device call: it goes on to its next
\* step, the success entry of the log, before the call has completed or failed
HandleCommand_NotAwaited(dev, command, payload, devRaises) ==
    LET failed == <<Log("error", "Error handling command")>>
    IN  IF dev = "None"
        THEN [calls |-> <<>>, log |-> <<Log("error", "Trydan device not connected")>>]
        ELSE IF command = "set_charge_current"
        THEN LET current == IntFloat(payload)
             IN  IF ~current.ok THEN [calls |-> <<>>, log |-> failed]
                 ELSE [calls |-> <<DevCall("intensity", <<PyInt(current.n)>>)>>,
                       log |-> <<Log("info", "Set charge current")>>]
        ELSE IF command \in {"pause_charge", "resume_charge", "lock", "unlock"}
        THEN [calls |-> <<SimpleCall(command)>>,
              log |-> <<Log("info", SimpleInfo(command))>>]
        ELSE [calls |-> <<>>, log |-> <<Log("warning", "Unknown command")>>]

\* _handle_command(command, payload): the device calls it makes and what it logs.
\* dev is self.trydan, payload a sequence of characters, devRaises: the device
\* call raises (the device rejects the write or cannot be reached).
HandleCommand(dev, command, payload, devRaises) ==
    LET failed == <<Log("error", "Error handling command")>>
    IN  IF dev = "None"
        THEN [calls |-> <<>>, log |-> <<Log("error", "Trydan device not connected")>>]
        ELSE IF command = "set_charge_current"
        THEN LET current == IntFloat(payload)
             IN  IF ~current.ok THEN [calls |-> <<>>, log |-> failed]
                 ELSE [calls |-> <<DevCall("intensity", <<PyInt(current.n)>>)>>,
                       log |-> IF devRaises THEN failed
                               ELSE <<Log("info", "Set charge current")>>]
        ELSE IF command \in {"pause_charge", "resume_charge", "lock", "unlock"}
        THEN [calls |-> <<SimpleCall(command)>>,
              log |-> IF devRaises THEN failed ELSE <<Log("info", SimpleInfo(command))>>]
        ELSE [calls |-> <<>>, log |-> <<Log("warning", "Unknown command")>>]

-----------------------------------------------------------------------------
(* Inbound bus messages *)

\* the characters of the ASCII codes the payloads of the model use
Chr(b) ==
    CASE b = 43 -> "+" [] b = 45 -> "-" [] b = 46 -> "."
      [] b \in 48..57 -> Digits[b - 47]
      [] b = 97 -> "a" [] b = 98 -> "b" [] b = 99 -> "c"
      [] OTHER -> "?"

\* bytes.decode('utf-8'): one character per ASCII byte; a byte 0xF8..0xFF is
\* never valid UTF-8 and raises UnicodeDecodeError
Utf8Decode(bytes) ==
    IF \E i \in 1..Len(bytes) : bytes[i] >= 248
    THEN [ok |-> FALSE, s |-> <<>>]
    ELSE [ok |-> TRUE, s |-> [i \in 1..Len(bytes) |-> Chr(bytes[i])]]

\* asyncio.create_task called on a thread: it needs the running event loop of
\* the calling thread, which only the main thread has
CreateTask(thread) == IF thread = "main" THEN "task" ELSE "RuntimeError"

\* _on_mqtt_message(msg) invoked on `thread`: the _handle_command tasks it
\* creates and what it logs. topic is a sequence of symbols, "/" the separator.
OnMqttMessage(topic, payloadBytes, thread) ==
    LET topic_parts == Split(topic, "/")
        n == Len(topic_parts)
        failed == <<Log("error", "Error processing MQTT message")>>
    IN  IF n >= 3 /\ topic_parts[n - 1] = <<"command">>
        THEN LET payload == Utf8Decode(payloadBytes)
                 received == <<Log("info", "Received command")>>
             IN  IF ~payload.ok THEN [tasks |-> <<>>, log |-> failed]
                 ELSE IF CreateTask(thread) # "task"
                 THEN [tasks |-> <<>>, log |-> received \o failed]
                 ELSE [tasks |-> << [command |-> Concat(topic_parts[n]),
                                     payload |-> payload.s] >>,
                       log |-> received]
        ELSE [tasks |-> <<>>, log |-> <<>>]

-----------------------------------------------------------------------------
(* Bus client callbacks *)

CommandPattern == TopicPrefix \o "/command/+"

\* _on_mqtt_connect that also announces availability on every accepted connect
OnMqttConnect_Announces(rc) ==
    IF rc = 0
    THEN [calls |-> <<BusCall("subscribe", CommandPattern, FALSE, FALSE),
                      BusCall("publish", "online", TRUE, FALSE)>>,
          log |-> <<Log("info", "MQTT connected successfully"),
                    Log("info", "Subscribed to command topic")>>]
    ELSE [calls |-> <<>>, log |-> <<Log("error", "MQTT connection failed")>>]

\* _on_mqtt_connect that subscribes without looking at the result code
OnMqttConnect_Unchecked(rc) ==
    [calls |-> <<BusCall("subscribe", CommandPattern, FALSE, FALSE)>>,
     log |-> IF rc = 0
             THEN <<Log("info", "MQTT connected successfully"),
                    Log("info", "Subscribed to command topic")>>
             ELSE <<Log("error", "MQTT connection failed")>>]

\* _on_mqtt_connect(rc): the calls it makes on the bus client and what it logs
OnMqttConnect(rc) ==
    IF rc = 0
    THEN [calls |-> <<BusCall("subscribe", CommandPattern, FALSE, FALSE)>>,
          log |-> <<Log("info", "MQTT connected successfully"),
                    Log("info", "Subscribed to command topic")>>]
    ELSE [calls |-> <<>>, log |-> <<Log("error", "MQTT connection failed")>>]

\* _on_mqtt_disconnect(rc): what it logs
OnMqttDisconnect(rc) ==
    IF rc # 0 THEN <<Log("warning", "Unexpected MQTT disconnection")>> ELSE <<>>

-----------------------------------------------------------------------------
(* Connecting and shutting down *)

\* _connect_trydan: the Trydan client is created, then get_data() is awaited;
\* outcome is what get_data() does
ConnectTrydan(outcome) ==
    IF outcome = "ok"
    THEN [result |-> TRUE, log |-> <<Log("info", "Connected to Trydan device")>>]
    ELSE [result |-> FALSE, log |-> <<Log("error", "Failed to connect to Trydan device")>>]

\* _connect_mqtt: outcome "ok", "client_raises" (mqtt.Client raises) or
\* "connect_raises" (mqtt_client.connect raises: the transport cannot be opened)
ConnectMqtt(outcome) ==
    LET failed == <<Log("error", "Failed to connect to MQTT broker")>>
    IN  CASE outcome = "client_raises" ->
               [result |-> FALSE, client |-> "None", loop |-> "idle",
                calls |-> <<BusCall("Client", "", FALSE, TRUE)>>, log |-> failed]
          [] outcome = "connect_raises" ->
               [result |-> FALSE, client |-> "client", loop |-> "idle",
                calls |-> <<BusCall("Client", "", FALSE, FALSE),
                            BusCall("connect", "", FALSE, TRUE)>>, log |-> failed]
          [] outcome = "ok" ->
               [result |-> TRUE, client |-> "client", loop |-> "started",
                calls |-> <<BusCall("Client", "", FALSE, FALSE),
                            BusCall("connect", "", FALSE, FALSE),
                            BusCall("loop_start", "", FALSE, FALSE)>>,
                log |-> <<Log("info", "Connected to MQTT broker")>>]

\* _shutdown in which a failing availability publish ends the shutdown
Shutdown_Abort(client, loopState, pubRaises, disc) ==
    LET avail == PublishAvailability(client, FALSE, pubRaises)
        bye == IF client = "None" \/ pubRaises
               THEN [calls |-> <<>>, loop |-> loopState, log |-> <<>>]
               ELSE IF disc = "loop_stop_raises"
               THEN [calls |-> <<BusCall("loop_stop", "", FALSE, TRUE)>>,
                     loop |-> loopState, log |-> <<>>]
               ELSE [calls |-> <<BusCall("loop_stop", "", FALSE, FALSE),
                                BusCall("disconnect", "", FALSE, disc = "disconnect_raises")>>,
                     loop |-> "stopped", log |-> <<>>]
    IN  [calls |-> avail.calls \o bye.calls,
         deviceCalls |-> <<>>,
         loop |-> bye.loop,
         log |-> <<Log("info", "Shutting down bridge")>> \o avail.log \o bye.log]

\* _shutdown: the calls it makes on the bus client, the state it leaves the
\* network thread in, and what it logs. disc is "ok", "loop_stop_raises" or
\* "disconnect_raises". No call is made on the device client.
Shutdown(client, loopState, pubRaises, disc) ==
    LET avail == PublishAvailability(client, FALSE, pubRaises)
        err == <<Log("error", "Error disconnecting from MQTT")>>
        bye == CASE client = "None" ->
                      [calls |-> <<>>, loop |-> loopState, log |-> <<>>]
                 [] client # "None" /\ disc = "loop_stop_raises" ->
                      [calls |-> <<BusCall("loop_stop", "", FALSE, TRUE)>>,
                       loop |-> loopState, log |-> err]
                 [] client # "None" /\ disc = "disconnect_raises" ->
                      [calls |-> <<BusCall("loop_stop", "", FALSE, FALSE),
                                  BusCall("disconnect", "", FALSE, TRUE)>>,
                       loop |-> "stopped", log |-> err]
                 [] OTHER ->
                      [calls |-> <<BusCall("loop_stop", "", FALSE, FALSE),
                                  BusCall("disconnect", "", FALSE, FALSE)>>,
                       loop |-> "stopped", log |-> <<>>]
    IN  [calls |-> avail.calls \o bye.calls,
         deviceCalls |-> <<>>,
         loop |-> bye.loop,
         log |-> <<Log("info", "Shutting down bridge")>> \o avail.log \o bye.log
                 \o <<Log("info", "Bridge shutdown complete")>>]

-----------------------------------------------------------------------------
(* Inputs of the environment *)

Commands == KnownCommands \cup {"reboot"}

\* command payloads as delivered to _handle_command (characters)
Payloads == { <<"1", "6">>, <<"1", "6", ".", "7">>, <<"-", "5">>, <<"a", "b", "c">>, <<>> }

\* message payloads as the bus delivers them (bytes): "16", "abc", an invalid byte
PayloadBytes == { <<49, 54>>, <<97, 98, 99>>, <<255>> }

\* the topics that match the subscription <prefix>/command/+
CommandTopic(c) == <<TopicPrefix, "/", "command", "/", c>>

Topics == { CommandTopic(c) : c \in {"set_charge_current", "lock", "reboot"} }

\* the commands handled: the payload matters to set_charge_current only, and an
\* unknown command is tried with every payload
CommandInputs ==
    ({"set_charge_current", "reboot"} \X Payloads)
    \cup ({"pause_charge", "resume_charge", "lock", "unlock"} \X {<<>>})

\* what get_data() returns when the outcome of the read is a failure: nothing
NoData == CHOOSE d \in DeviceData : TRUE

\* CONNACK result codes: accepted, refused (not authorised)
ConnackCodes == {0, 5}

\* result codes of a disconnection the client did not ask for
DisconnectCodes == {5, 7}

-----------------------------------------------------------------------------
(* The state machine *)

PcValues == {"start", "constructed", "connect_trydan", "connect_mqtt",
             "loop_top", "reading", "sleeping", "done"}

\* the states of the controller in terms of the position of run()
Starting         == pc \in {"start", "constructed"}
ConnectingDevice == pc = "connect_trydan"
ConnectingBus    == pc = "connect_mqtt"
InLoop           == pc \in {"loop_top", "reading", "sleeping"}
Stopped          == pc = "done"

\* what a step records in `last`
NoStep ==
    [op |-> "none", command |-> "", payload |-> <<>>, topic |-> <<>>,
     calls |-> <<>>, msgs |-> <<>>, tasks |-> <<>>, log |-> <<>>,
     read |-> "", data |-> <<>>, skipped |-> 0, config |-> {}, raised |-> FALSE]

Init ==
    /\ pc = "start"
    /\ exitCode = <<>>
    /\ running = FALSE
    /\ trydan = "None"
    /\ mqtt_client = "None"
    /\ loop = "idle"
    /\ link = "none"
    /\ busCalls = <<>>
    /\ cycles = 0
    /\ failStreak = 0
    /\ dataCount = 0
    /\ busEvents = 0
    /\ termRequested = FALSE
    /\ deviceConnected = "unknown"
    /\ last = NoStep

\* main(): TrydanMQTTBridge(config_path); an exception of the constructor is
\* logged as fatal and the process exits with code 1
Construct(config) ==
    /\ pc = "start"
    /\ IF LoadConfig(config) = "ok"
       THEN /\ pc' = "constructed"
            /\ exitCode' = exitCode
            /\ last' = [NoStep EXCEPT !.op = "construct", !.config = config]
       ELSE /\ pc' = "done"
            /\ exitCode' = <<1>>
            /\ last' = [NoStep EXCEPT !.op = "construct", !.config = config,
                                     !.log = <<Log("error", "Fatal error")>>]
    /\ running' = FALSE
    /\ trydan' = "None"
    /\ mqtt_client' = "None"
    /\ UNCHANGED <<loop, link, busCalls, cycles, failStreak, dataCount,
                   busEvents, termRequested, deviceConnected>>

\* run() up to its first await: the Trydan client is created and get_data()
\* is in flight
RunStart ==
    /\ pc = "constructed"
    /\ pc' = "connect_trydan"
    /\ trydan' = "client"
    /\ last' = [NoStep EXCEPT !.op = "run",
                              !.log = <<Log("info", "Starting Trydan to MQTT bridge")>>]
    /\ UNCHANGED <<exitCode, running, mqtt_client, loop, link, busCalls, cycles,
                   failStreak, dataCount, busEvents, termRequested, deviceConnected>>

\* run() that goes on to the bus connect whatever _connect_trydan returned
RunConnectTrydan_Continue(outcome) ==
    /\ pc = "connect_trydan"
    /\ LET r == ConnectTrydan(outcome)
       IN  /\ pc' = "connect_mqtt"
           /\ exitCode' = exitCode
           /\ last' = [NoStep EXCEPT !.op = "connect_trydan", !.log = r.log]
           /\ deviceConnected' = IF r.result THEN "yes" ELSE "no"
    /\ UNCHANGED <<running, trydan, mqtt_client, loop, link, busCalls, cycles,
                   failStreak, dataCount, busEvents, termRequested>>

\* run(): _connect_trydan returns; on failure run() returns and so does main()
RunConnectTrydan(outcome) ==
    /\ pc = "connect_trydan"
    /\ LET r == ConnectTrydan(outcome)
       IN  /\ IF r.result
              THEN /\ pc' = "connect_mqtt"
                   /\ exitCode' = exitCode
                   /\ last' = [NoStep EXCEPT !.op = "connect_trydan", !.log = r.log]
              ELSE /\ pc' = "done"
                   /\ exitCode' = <<0>>
                   /\ last' = [NoStep EXCEPT !.op = "connect_trydan",
                                 !.log = r.log \o <<Log("error",
                                  "Failed to connect to Trydan device, exiting")>>]
           /\ deviceConnected' = IF r.result THEN "yes" ELSE "no"
    /\ UNCHANGED <<running, trydan, mqtt_client, loop, link, busCalls, cycles,
                   failStreak, dataCount, busEvents, termRequested>>

\* run(): _connect_mqtt; on failure run() returns and so does main(); on
\* success availability is published and the running flag is set
RunConnectMqtt(outcome, pubRaises) ==
    /\ pc = "connect_mqtt"
    /\ LET r == ConnectMqtt(outcome)
           avail == PublishAvailability(r.client, TRUE, pubRaises)
       IN  /\ mqtt_client' = r.client
           /\ loop' = r.loop
           /\ IF r.result
              THEN /\ busCalls' = busCalls \o r.calls \o avail.calls
                   /\ link' = "handshake"
                   /\ running' = TRUE
                   /\ pc' = "loop_top"
                   /\ exitCode' = exitCode
                   /\ last' = [NoStep EXCEPT !.op = "connect_mqtt",
                                 !.log = r.log \o avail.log
                                         \o <<Log("info", "Bridge started")>>]
              ELSE /\ busCalls' = busCalls \o r.calls
                   /\ link' = link
                   /\ running' = running
                   /\ pc' = "done"
                   /\ exitCode' = <<0>>
                   /\ last' = [NoStep EXCEPT !.op = "connect_mqtt",
                                 !.log = r.log \o <<Log("error",
                                     "Failed to connect to MQTT broker, exiting")>>]
    /\ UNCHANGED <<trydan, cycles, failStreak, dataCount, busEvents, termRequested, deviceConnected>>

\* the finally clause of run(): _shutdown, after which main() returns
RunShutdown(op, pubRaises, disc, log) ==
    LET r == Shutdown(mqtt_client, loop, pubRaises, disc)
    IN  /\ busCalls' = busCalls \o r.calls
        /\ loop' = r.loop
        /\ pc' = "done"
        /\ exitCode' = <<0>>
        /\ last' = [NoStep EXCEPT !.op = op, !.calls = r.deviceCalls,
                                  !.log = log \o r.log]
        /\ UNCHANGED <<running, trydan, mqtt_client, link, cycles, failStreak,
                       dataCount, busEvents, termRequested, deviceConnected>>

\* a loop that does not look at the flag: while True
LoopCheck_Forever(pubRaises, disc) ==
    /\ pc = "loop_top"
    /\ cycles < MaxCycles
    /\ pc' = "reading"
    /\ last' = [NoStep EXCEPT !.op = "loop_check"]
    /\ UNCHANGED <<exitCode, running, trydan, mqtt_client, loop, link,
                   busCalls, cycles, failStreak, dataCount, busEvents,
                   termRequested, deviceConnected>>

\* while self.running: either the next read begins or the loop ends
LoopCheck(pubRaises, disc) ==
    /\ pc = "loop_top"
    /\ IF running
       THEN /\ cycles < MaxCycles
            /\ pc' = "reading"
            /\ last' = [NoStep EXCEPT !.op = "loop_check"]
            /\ UNCHANGED <<exitCode, running, trydan, mqtt_client, loop, link,
                           busCalls, cycles, failStreak, dataCount, busEvents,
                           termRequested, deviceConnected>>
       ELSE RunShutdown("shutdown", pubRaises, disc, <<>>)

\* a poll cycle whose _publish_data lets the exception of a publish call or of
\* the serialisation out into run(), where it ends the loop
EndRead_Propagates(outcome, d, failAt) ==
    /\ pc = "reading"
    /\ LET r == ReadTrydanData(trydan, outcome, d, cycles + 1)
           p == IF r.data # <<>>
                THEN PublishData(mqtt_client, r.data, failAt)
                ELSE [msgs |-> <<>>,
                      log |-> <<Log("warning", "No data received from Trydan device")>>]
       IN  /\ failAt \in 0..(IF r.data = <<>> THEN 0 ELSE NumSensors(r.data) + 2)
           /\ IF failAt > 0
              THEN RunShutdown("loop_error", FALSE, "ok",
                               <<Log("error", "Error in main loop")>>)
              ELSE /\ last' = [NoStep EXCEPT !.op = "poll",
                                             !.read = outcome,
                                             !.data = r.data,
                                             !.skipped = failStreak,
                                             !.msgs = p.msgs,
                                             !.log = r.log \o p.log]
                   /\ failStreak' = IF outcome = "ok" THEN 0 ELSE failStreak + 1
                   /\ dataCount' = dataCount + Count(p.msgs, IsData)
                   /\ cycles' = cycles + 1
                   /\ pc' = "sleeping"
                   /\ UNCHANGED <<exitCode, running, trydan, mqtt_client, loop, link,
                                  busCalls, busEvents, termRequested, deviceConnected>>

\* a poll cycle that announces 'offline' when the device read failed
EndRead_OfflineOnFailure(outcome, d, failAt) ==
    /\ pc = "reading"
    /\ LET r == ReadTrydanData(trydan, outcome, d, cycles + 1)
           p == IF r.data # <<>>
                THEN PublishData(mqtt_client, r.data, failAt)
                ELSE [msgs |-> <<>>,
                      log |-> <<Log("warning", "No data received from Trydan device")>>]
           avail == IF r.data # <<>>
                    THEN <<>>
                    ELSE PublishAvailability(mqtt_client, FALSE, FALSE).calls
       IN  /\ failAt \in 0..(IF r.data = <<>> THEN 0 ELSE NumSensors(r.data) + 2)
           /\ last' = [NoStep EXCEPT !.op = "poll",
                                     !.read = outcome,
                                     !.data = r.data,
                                     !.skipped = failStreak,
                                     !.msgs = p.msgs,
                                     !.log = r.log \o p.log]
           /\ failStreak' = IF outcome = "ok" THEN 0 ELSE failStreak + 1
           /\ dataCount' = dataCount + Count(p.msgs, IsData)
           /\ busCalls' = busCalls \o avail
    /\ cycles' = cycles + 1
    /\ pc' = "sleeping"
    /\ UNCHANGED <<exitCode, running, trydan, mqtt_client, loop, link,
                   busEvents, termRequested, deviceConnected>>

\* the read of a poll cycle returns: publish the snapshot or skip the cycle
EndRead(outcome, d, failAt) ==
    /\ pc = "reading"
    /\ LET r == ReadTrydanData(trydan, outcome, d, cycles + 1)
           p == IF r.data # <<>>
                THEN PublishData(mqtt_client, r.data, failAt)
                ELSE [msgs |-> <<>>,
                      log |-> <<Log("warning", "No data received from Trydan device")>>]
       IN  /\ failAt \in 0..(IF r.data = <<>> THEN 0 ELSE NumSensors(r.data) + 2)
           /\ last' = [NoStep EXCEPT !.op = "poll",
                                     !.read = outcome,
                                     !.data = r.data,
                                     !.skipped = failStreak,
                                     !.msgs = p.msgs,
                                     !.log = r.log \o p.log]
           /\ failStreak' = IF outcome = "ok" THEN 0 ELSE failStreak + 1
           /\ dataCount' = dataCount + Count(p.msgs, IsData)
    /\ cycles' = cycles + 1
    /\ pc' = "sleeping"
    /\ UNCHANGED <<exitCode, running, trydan, mqtt_client, loop, link, busCalls,
                   busEvents, termRequested, deviceConnected>>

\* a run() without the finally clause: an exception in the loop ends run()
\* and _shutdown is not called
EndSleep_NoFinally(raises, pubRaises, disc) ==
    /\ pc = "sleeping"
    /\ IF raises
       THEN /\ pc' = "done"
            /\ exitCode' = <<0>>
            /\ last' = [NoStep EXCEPT !.op = "loop_error",
                                      !.log = <<Log("error", "Error in main loop")>>]
            /\ UNCHANGED <<running, trydan, mqtt_client, loop, link,
                           busCalls, cycles, failStreak, dataCount, busEvents,
                           termRequested, deviceConnected>>
       ELSE /\ pc' = "loop_top"
            /\ last' = [NoStep EXCEPT !.op = "sleep"]
            /\ UNCHANGED <<exitCode, running, trydan, mqtt_client, loop, link,
                           busCalls, cycles, failStreak, dataCount, busEvents,
                           termRequested, deviceConnected>>

\* asyncio.sleep(poll_interval) returns, or raises and ends the loop
EndSleep(raises, pubRaises, disc) ==
    /\ pc = "sleeping"
    /\ IF raises
       THEN RunShutdown("loop_error", pubRaises, disc,
                        <<Log("error", "Error in main loop")>>)
       ELSE /\ pc' = "loop_top"
            /\ last' = [NoStep EXCEPT !.op = "sleep"]
            /\ UNCHANGED <<exitCode, running, trydan, mqtt_client, loop, link,
                           busCalls, cycles, failStreak, dataCount, busEvents,
                           termRequested, deviceConnected>>

\* _signal_handler: SIGINT or SIGTERM delivered once the handlers are installed
SignalHandler ==
    /\ pc \notin {"start", "done"}
    /\ running' = FALSE
    /\ termRequested' = TRUE
    /\ last' = [NoStep EXCEPT !.op = "signal",
                              !.log = <<Log("info", "Received signal")>>]
    /\ UNCHANGED <<pc, exitCode, trydan, mqtt_client, loop, link, busCalls, cycles,
                   failStreak, dataCount, busEvents, deviceConnected>>

\* the network thread runs between loop_start() and loop_stop()
NetworkThread == loop = "started" /\ pc # "done"

\* the broker answers the CONNECT of the client: on_connect(rc)
NetConnect(rc) ==
    /\ NetworkThread
    /\ link = "handshake"
    /\ busEvents < MaxBusEvents
    /\ LET r == OnMqttConnect(rc)
       IN  /\ busCalls' = busCalls \o r.calls
           /\ last' = [NoStep EXCEPT !.op = "on_connect", !.log = r.log]
    /\ link' = IF rc = 0 THEN "up" ELSE "refused"
    /\ busEvents' = busEvents + 1
    /\ UNCHANGED <<pc, exitCode, running, trydan, mqtt_client, loop, cycles,
                   failStreak, dataCount, termRequested, deviceConnected>>

\* on_disconnect(rc) that takes the loss of the session as a request to stop
NetDisconnect_Halts(rc) ==
    /\ NetworkThread
    /\ link \in {"up", "refused"}
    /\ busEvents < MaxBusEvents
    /\ last' = [NoStep EXCEPT !.op = "on_disconnect", !.log = OnMqttDisconnect(rc)]
    /\ link' = "handshake"
    /\ busEvents' = busEvents + 1
    /\ running' = FALSE
    /\ UNCHANGED <<pc, exitCode, trydan, mqtt_client, loop, busCalls,
                   cycles, failStreak, dataCount, termRequested, deviceConnected>>

\* the session ends without the client asking for it: on_disconnect(rc); the
\* client's loop then reconnects and sends CONNECT again
NetDisconnect(rc) ==
    /\ NetworkThread
    /\ link \in {"up", "refused"}
    /\ busEvents < MaxBusEvents
    /\ last' = [NoStep EXCEPT !.op = "on_disconnect", !.log = OnMqttDisconnect(rc)]
    /\ link' = "handshake"
    /\ busEvents' = busEvents + 1
    /\ UNCHANGED <<pc, exitCode, running, trydan, mqtt_client, loop, busCalls,
                   cycles, failStreak, dataCount, termRequested, deviceConnected>>

\* a message on a subscribed topic arrives: on_message(msg) on the network thread
NetMessage(topic, payloadBytes) ==
    /\ NetworkThread
    /\ link = "up"
    /\ LET r == OnMqttMessage(topic, payloadBytes, "network")
       IN  last' = [NoStep EXCEPT !.op = "on_message", !.topic = topic,
                                  !.payload = Utf8Decode(payloadBytes).s,
                                  !.tasks = r.tasks, !.log = r.log]
    /\ UNCHANGED <<pc, exitCode, running, trydan, mqtt_client, loop, link, busCalls,
                   cycles, failStreak, dataCount, busEvents, termRequested, deviceConnected>>

\* a _handle_command coroutine runs on the event loop while run() is suspended
\* at one of its awaits
CommandTask(command, payload, devRaises) ==
    /\ pc \in {"connect_trydan", "reading", "sleeping"}
    /\ LET r == HandleCommand(trydan, command, payload, devRaises)
       IN  /\ devRaises => r.calls # <<>>
           /\ last' = [NoStep EXCEPT !.op = "handle_command", !.command = command,
                                     !.payload = payload, !.calls = r.calls,
                                     !.raised = devRaises, !.log = r.log]
    /\ UNCHANGED <<pc, exitCode, running, trydan, mqtt_client, loop, link, busCalls,
                   cycles, failStreak, dataCount, busEvents, termRequested, deviceConnected>>

ShutdownOutcomes == {"ok", "loop_stop_raises", "disconnect_raises"}

Next ==
    \/ \E config \in Configs : Construct(config)
    \/ RunStart
    \/ \E outcome \in {"ok", "fail"} : RunConnectTrydan(outcome)
    \/ \E outcome \in {"ok", "client_raises", "connect_raises"}, pubRaises \in BOOLEAN :
          RunConnectMqtt(outcome, pubRaises)
    \/ \E pubRaises \in BOOLEAN, disc \in ShutdownOutcomes : LoopCheck(pubRaises, disc)
    \/ \E d \in DeviceData, failAt \in 0..6 : EndRead("ok", d, failAt)
    \/ EndRead("fail", NoData, 0)
    \/ \E raises \in BOOLEAN, pubRaises \in BOOLEAN, disc \in ShutdownOutcomes :
          EndSleep(raises, pubRaises, disc)
    \/ SignalHandler
    \/ \E rc \in ConnackCodes : NetConnect(rc)
    \/ \E rc \in DisconnectCodes : NetDisconnect(rc)
    \/ \E topic \in Topics, payloadBytes \in PayloadBytes : NetMessage(topic, payloadBytes)
    \/ \E input \in CommandInputs, devRaises \in BOOLEAN :
          CommandTask(input[1], input[2], devRaises)

Spec == Init /\ [][Next]_vars

\* the steps run() takes inside the poll loop: the check of the flag, the return
\* of the read it awaits, the return of the sleep it awaits
PollLoopStep ==
    \/ \E pubRaises \in BOOLEAN, disc \in ShutdownOutcomes : LoopCheck(pubRaises, disc)
    \/ \E d \in DeviceData, failAt \in 0..6 : EndRead("ok", d, failAt)
    \/ EndRead("fail", NoData, 0)
    \/ \E raises \in BOOLEAN, pubRaises \in BOOLEAN, disc \in ShutdownOutcomes :
          EndSleep(raises, pubRaises, disc)

\* the program with one message and one command as the traffic on the command
\* channel, which only the log tells apart
FairNext ==
    \/ \E config \in Configs : Construct(config)
    \/ RunStart
    \/ \E outcome \in {"ok", "fail"} : RunConnectTrydan(outcome)
    \/ \E outcome \in {"ok", "client_raises", "connect_raises"}, pubRaises \in BOOLEAN :
          RunConnectMqtt(outcome, pubRaises)
    \/ PollLoopStep
    \/ SignalHandler
    \/ \E rc \in ConnackCodes : NetConnect(rc)
    \/ \E rc \in DisconnectCodes : NetDisconnect(rc)
    \/ NetMessage(CommandTopic("lock"), <<49, 54>>)
    \/ \E devRaises \in BOOLEAN : CommandTask("lock", <<>>, devRaises)

\* the event loop goes on running run(): every read and every sleep it awaits
\* returns in the end
FairSpec == Init /\ [][FairNext]_vars /\ WF_vars(PollLoopStep)

TypeOK ==
    /\ pc \in PcValues
    /\ exitCode \in {<<>>, <<0>>, <<1>>}
    /\ running \in BOOLEAN
    /\ trydan \in {"None", "client"}
    /\ mqtt_client \in {"None", "client"}
    /\ loop \in {"idle", "started", "stopped"}
    /\ link \in {"none", "handshake", "up", "refused"}
    /\ cycles \in 0..MaxCycles
    /\ failStreak \in 0..cycles
    /\ dataCount \in 0..cycles
    /\ busEvents \in 0..MaxBusEvents
    /\ termRequested \in BOOLEAN
    /\ deviceConnected \in {"unknown", "yes", "no"}

-----------------------------------------------------------------------------
(* Availability *)

IsAvailability(c) == c.op = "publish"

\* the availability publish calls made so far, in order
AvailabilityCalls == SelectSeq(busCalls, IsAvailability)

AvailabilityPayloads == [i \in 1..Len(AvailabilityCalls) |-> AvailabilityCalls[i].arg]

\* the payload of the latest availability publish call, "none" before the first
LastAvailability ==
    IF AvailabilityCalls = <<>> THEN "none" ELSE Last(AvailabilityCalls).arg

\* the bus connect of the startup succeeded: the network thread was started
BusStarted == \E i \in 1..Len(busCalls) : busCalls[i].op = "loop_start"

\* C1 as stated: the last availability value published is 'online' if and only
\* if the controller is in Running, Running meaning that the startup connects
\* are done, the running flag is set and shutdown has not been performed.
C1_OnlineIffRunningFlag ==
    (LastAvailability = "online") <=> (InLoop /\ running)

\* C1 amended: the last availability value published is 'online' if and only if
\* the controller is in the poll loop (startup connects done, shutdown not yet
\* performed), whether or not a termination request has already cleared the
\* running flag; in Starting, ConnectingDevice, ConnectingBus and Stopped it is
\* not 'online'.
C1_OnlineIffInLoop ==
    /\ (LastAvailability = "online") <=> InLoop
    /\ (Starting \/ ConnectingDevice \/ ConnectingBus) => LastAvailability = "none"
    /\ Stopped => LastAvailability \in {"none", "offline"}

\* the case of C1: a termination request has cleared the flag during a cycle
\* and 'online' is still the last value published
C1_Witness ==
    /\ pc = "sleeping"
    /\ ~running
    /\ termRequested
    /\ LastAvailability = "online"

\* C2: over a process lifetime that reaches Running and shuts down, exactly one
\* 'online' and exactly one 'offline' availability message are published, the
\* 'online' one first and the 'offline' one last, both retained; no other
\* availability message is published, bus reconnects and failed poll cycles
\* included, and telemetry is published only between the two.
C2_OneOnlineOneOffline ==
    /\ AvailabilityPayloads \in {<<>>, <<"online">>, <<"online", "offline">>}
    /\ \A i \in 1..Len(AvailabilityCalls) : AvailabilityCalls[i].retain
    /\ ~BusStarted => AvailabilityPayloads = <<>>
    /\ (BusStarted /\ ~Stopped) => AvailabilityPayloads = <<"online">>
    /\ (BusStarted /\ Stopped) => AvailabilityPayloads = <<"online", "offline">>
    /\ last.msgs # <<>> => AvailabilityPayloads = <<"online">>

\* the case of C2: a lifetime with a failed cycle and a bus reconnect that has
\* shut down
C2_Witness ==
    /\ Stopped
    /\ AvailabilityPayloads = <<"online", "offline">>
    /\ cycles >= 2
    /\ dataCount < cycles
    /\ busEvents >= 2
    /\ Count(busCalls, LAMBDA c : c.op = "subscribe") >= 1

-----------------------------------------------------------------------------
(* The poll cycle *)

\* a step of the poll loop in which no publish call and no serialisation raised
PublishedCleanly(step) ==
    /\ \A i \in 1..Len(step.msgs) : ~step.msgs[i].raised
    /\ \A i \in 1..Len(step.log) : step.log[i].level # "error"

\* C3: a read failure during Running never terminates the poll loop. A cycle
\* whose device read fails publishes no sensor and no /data message and leaves
\* the loop running (the running flag untouched, the process alive, the loop
\* at its sleep); the cycle after N such cycles whose read succeeds makes one
\* snapshot publish, which, when no publish call raises, is exactly one /data
\* message: the first since the N skipped cycles began.
C3_ReadFailureSkipsCycle ==
    /\ [](last.op = "poll" =>
            /\ pc = "sleeping" /\ exitCode = <<>>
            /\ last.read = "fail" =>
                 /\ last.msgs = <<>>
                 /\ last.data = <<>>
                 /\ failStreak = last.skipped + 1
            /\ last.read = "ok" =>
                 /\ failStreak = 0
                 /\ Count(last.msgs, IsData) <= 1
                 /\ PublishedCleanly(last) => Count(last.msgs, IsData) = 1)
    /\ [][(pc = "reading" /\ last'.op = "poll") =>
            /\ running' = running
            /\ pc' = "sleeping"
            /\ last'.read = "fail" => dataCount' = dataCount
            /\ (last'.read = "ok" /\ PublishedCleanly(last')) =>
                 dataCount' = dataCount + 1]_vars

\* the case of C3: a successful cycle right after a failed one; its /data
\* message is the only one so far
C3_Witness ==
    /\ last.op = "poll"
    /\ last.read = "ok"
    /\ last.skipped >= 1
    /\ cycles = last.skipped + 1
    /\ Count(last.msgs, IsData) = 1
    /\ dataCount = 1
    /\ running

-----------------------------------------------------------------------------
(* Commands *)

\* the command a topic names: its last segment
TopicCommand(topic) == Concat(Last(Split(topic, "/")))

IsWrite(c) == c.op \in WriteOps

\* C4: a command whose name is none of set_charge_current, pause_charge,
\* resume_charge, lock, unlock never invokes a write operation of the device
\* session, whatever its payload and wherever run() stands; handling it logs
\* one warning, publishes nothing and changes nothing on the bus client.
C4_UnknownCommandNoWrite ==
    /\ []((last.op = "handle_command" /\ last.command \notin KnownCommands) =>
            /\ Count(last.calls, IsWrite) = 0
            /\ last.calls = <<>>
            /\ last.msgs = <<>>
            /\ last.log = <<Log("warning", "Unknown command")>>)
    /\ []((last.op = "on_message" /\ TopicCommand(last.topic) \notin KnownCommands) =>
            /\ last.calls = <<>>
            /\ last.msgs = <<>>
            /\ \A i \in 1..Len(last.tasks) :
                 HandleCommand(trydan, last.tasks[i].command,
                               last.tasks[i].payload, FALSE).calls = <<>>)
    /\ [][(last'.op = "handle_command" /\ last'.command \notin KnownCommands) =>
            busCalls' = busCalls /\ dataCount' = dataCount]_vars

\* the case of C4: an unknown command with a numeric payload has been handled
\* while a device read was in flight
C4_Witness ==
    /\ last.op = "handle_command"
    /\ last.command = "reboot"
    /\ last.payload = <<"1", "6">>
    /\ pc = "reading"
    /\ last.calls = <<>>

\* C5 as stated: a message delivered by the bus client's callback on
\* <prefix>/command/set_charge_current with payload "16" starts the handling
\* that makes exactly one set-current call with the number 16 on the device
\* session; with the payload "abc" it starts the handling that makes no device
\* call and logs exactly one coercion failure.
C5_CallbackReachesDevice ==
    (last.op = "on_message" /\ last.topic = CommandTopic("set_charge_current")) =>
        /\ last.payload = <<"1", "6">> =>
             /\ Len(last.tasks) = 1
             /\ HandleCommand(trydan, last.tasks[1].command, last.tasks[1].payload,
                              FALSE).calls = <<DevCall("intensity", <<PyInt(16)>>)>>
        /\ last.payload = <<"a", "b", "c">> =>
             /\ Len(last.tasks) = 1
             /\ LET r == HandleCommand(trydan, last.tasks[1].command,
                                       last.tasks[1].payload, FALSE)
                IN  r.calls = <<>> /\ r.log = <<Log("error", "Error handling command")>>

-----------------------------------------------------------------------------
(* Startup *)

BusConnectFailed ==
    \E i \in 1..Len(busCalls) : busCalls[i].op \in {"Client", "connect"} /\ busCalls[i].raised

ShutdownRan == last.op \in {"shutdown", "loop_error"}

\* C6: if the device connect fails at startup the controller goes directly to
\* Stopped; the bus connect is never attempted (no bus client is created, no
\* network thread started, no call made on a bus client) and no availability,
\* sensor or /data message is ever published.
C6_DeviceFailureStopsBeforeBus ==
    deviceConnected = "no" =>
        /\ Stopped
        /\ mqtt_client = "None"
        /\ loop = "idle"
        /\ link = "none"
        /\ busCalls = <<>>
        /\ cycles = 0 /\ dataCount = 0
        /\ last.op = "connect_trydan" /\ last.msgs = <<>>

\* the case of C6: the device connect has failed and run() has returned
C6_Witness ==
    /\ deviceConnected = "no"
    /\ Stopped
    /\ trydan = "client"
    /\ \E i \in 1..Len(last.log) : last.log[i].msg = "Failed to connect to Trydan device"

\* C7 as stated: a connection failure during startup (device or bus) makes the
\* process exit with a non-zero exit code; exit code 0 occurs only after a
\* graceful shutdown from Running.
C7_ConnectFailureExitsNonZero ==
    /\ (Stopped /\ (deviceConnected = "no" \/ BusConnectFailed)) => exitCode # <<0>>
    /\ exitCode = <<0>> => ShutdownRan

-----------------------------------------------------------------------------
(* Shutdown *)

IsOffline(c) == c.op = "publish" /\ c.arg = "offline"

\* the position of the first 'offline' publish in busCalls, 0 if there is none
OfflineAt ==
    IF \E i \in 1..Len(busCalls) : IsOffline(busCalls[i])
    THEN CHOOSE i \in 1..Len(busCalls) :
           IsOffline(busCalls[i]) /\ \A j \in 1..(i - 1) : ~IsOffline(busCalls[j])
    ELSE 0

\* C8 as stated: a termination request received in Running leads to exactly
\* one 'offline' publish, followed by DeviceSession.disconnect and then
\* BusSession.disconnect both being invoked, whatever fails, and the controller
\* ends in Stopped.
C8_BothSessionsDisconnected ==
    last.op = "shutdown" =>
        /\ Stopped
        /\ Count(busCalls, IsOffline) = 1
        /\ \E i \in 1..Len(last.calls) : last.calls[i].op = "disconnect"
        /\ \E i \in 1..Len(busCalls) : i > OfflineAt /\ busCalls[i].op = "loop_stop"

\* C8 amended: a termination request received in Running ends the loop at its
\* next test of the running flag with exactly one 'offline' publish, followed
\* by loop_stop and, unless loop_stop raised, disconnect on the bus client; no
\* disconnect (no call at all) is made on the device session. An exception in
\* the offline publish or in either bus call does not prevent the steps after
\* the try block it is in, and the controller ends in Stopped with exit code 0.
C8_OfflineThenBusDisconnect ==
    /\ [](last.op = "shutdown" =>
            /\ termRequested /\ ~running
            /\ Stopped /\ exitCode = <<0>>
            /\ last.calls = <<>>
            /\ Count(busCalls, IsOffline) = 1
            /\ busCalls[OfflineAt].retain
            /\ Len(busCalls) > OfflineAt
            /\ busCalls[OfflineAt + 1].op = "loop_stop"
            /\ IF busCalls[OfflineAt + 1].raised
               THEN Len(busCalls) = OfflineAt + 1
               ELSE /\ Len(busCalls) = OfflineAt + 2
                    /\ busCalls[OfflineAt + 2].op = "disconnect"
                    /\ loop = "stopped")
    /\ [][(pc = "loop_top" /\ ~running /\ pc' # pc) =>
             (last'.op = "shutdown" /\ pc' = "done")]_vars

\* the case of C8: after a termination request in Running the offline publish
\* raised, the bus client was still stopped and disconnected, that disconnect
\* raised too, and the controller is Stopped
C8_Witness ==
    /\ last.op = "shutdown"
    /\ cycles >= 1
    /\ busCalls[OfflineAt].raised
    /\ Last(busCalls).op = "disconnect"
    /\ Last(busCalls).raised
    /\ Stopped

-----------------------------------------------------------------------------
(* Publishing a snapshot *)

NotTimestamp(kv) == kv[1] # "timestamp"

\* C9: one publish of a snapshot S (a 'timestamp' plus device fields) in which
\* no call raises emits exactly |S| - 1 messages on <prefix>/sensor/<field>,
\* one per field other than 'timestamp' and in the order of the fields, the
\* payload the string form of the value, then exactly one message on
\* <prefix>/data whose payload is the JSON object of the full snapshot,
\* 'timestamp' included; every one of them has the retain flag set.
C9_PublishEmitsFieldsAndData ==
    (last.op = "poll" /\ last.read = "ok" /\ PublishedCleanly(last)) =>
        LET fields == SelectSeq(last.data, NotTimestamp)
            n == Len(fields)
        IN  /\ n = Len(last.data) - 1
            /\ \E i \in 1..Len(last.data) : last.data[i][1] = "timestamp"
            /\ Len(last.msgs) = n + 1
            /\ \A i \in 1..n :
                 /\ last.msgs[i].topic = TopicPrefix \o "/sensor/" \o fields[i][1]
                 /\ last.msgs[i].payload = PyStr(fields[i][2])
            /\ \A i \in 1..Len(last.msgs) :
                 /\ last.msgs[i].retain
                 /\ last.msgs[i].topic # TopicPrefix \o "/sensor/timestamp"
            /\ last.msgs[n + 1].topic = TopicPrefix \o "/data"
            /\ last.msgs[n + 1].payload = JsonDumps(last.data)
            /\ Count(last.msgs, IsData) = 1

\* the case of C9: the snapshot of the first cycle, one field of each scalar
\* type, with the payloads spelled out
C9_Witness ==
    /\ last.op = "poll" /\ last.read = "ok" /\ PublishedCleanly(last)
    /\ Len(last.msgs) = 5
    /\ last.msgs[1] = Msg("trydan/sensor/status", "2", TRUE, FALSE)
    /\ last.msgs[2] = Msg("trydan/sensor/charging_power", "0", TRUE, FALSE)
    /\ last.msgs[3] = Msg("trydan/sensor/locked", "True", TRUE, FALSE)
    /\ last.msgs[4] = Msg("trydan/sensor/firmware_version", "1.6", TRUE, FALSE)
    /\ last.msgs[5].topic = "trydan/data"
    /\ last.msgs[5].payload =
         "{\"timestamp\": \"T1\", \"status\": 2, \"charging_power\": 0, "
         \o "\"locked\": true, \"firmware_version\": \"1.6\"}"

-----------------------------------------------------------------------------
(* The broker handshake *)

HandshakeAccepted == \E i \in 1..Len(busCalls) : busCalls[i].op = "subscribe"

\* C10 as stated: the controller enters Running and publishes 'online' only
\* after the bus connect has succeeded, the broker having accepted the
\* handshake; if the handshake is refused with a non-zero result code the
\* controller is Stopped, the poll loop never starts and no availability
\* message is sent.
C10_OnlineOnlyAfterHandshake ==
    /\ (InLoop \/ LastAvailability = "online") => HandshakeAccepted
    /\ link = "refused" => (Stopped /\ AvailabilityCalls = <<>> /\ cycles = 0)

-----------------------------------------------------------------------------
(* The command subscription *)

IsSubscribe(c) == c.op = "subscribe"

\* the subscribe calls made on the bus client so far
Subscriptions == Count(busCalls, IsSubscribe)

\* C11 as stated: the subscription to <prefix>/command/+ is issued exactly once,
\* after a successful bus connect: never on a failed connect result and not
\* again on a later connect event such as the one that follows an automatic
\* background reconnect.
C11_SubscribedExactlyOnce ==
    /\ Subscriptions <= 1
    /\ link = "up" => Subscriptions = 1
    /\ (last.op = "on_connect" /\ link = "refused") => last.calls = <<>>

\* C11 amended: the subscription to <prefix>/command/+ is issued once for every
\* connect event the broker accepted (result code 0), the one that follows an
\* automatic background reconnect included, and at no other moment: never on a
\* failed connect result and never before the network thread was started.
C11_SubscribedOnEveryAcceptedConnect ==
    /\ [](\A i \in 1..Len(busCalls) :
            IsSubscribe(busCalls[i]) =>
              /\ busCalls[i].arg = CommandPattern
              /\ ~busCalls[i].raised
              /\ \E j \in 1..(i - 1) : busCalls[j].op = "loop_start")
    /\ [](link = "up" => Subscriptions >= 1)
    /\ [][(last'.op = "on_connect" /\ busEvents' # busEvents) =>
            /\ link = "handshake"
            /\ link' = "up" => Subscriptions' = Subscriptions + 1
            /\ link' = "refused" => Subscriptions' = Subscriptions]_vars
    /\ [][Subscriptions' # Subscriptions =>
            (last'.op = "on_connect" /\ link = "handshake" /\ link' = "up")]_vars

\* the case of C11: the broker accepts the connect that follows a reconnect and
\* the pattern is subscribed a second time
C11_Witness ==
    /\ last.op = "on_connect"
    /\ link = "up"
    /\ busEvents = 3
    /\ Subscriptions = 2

-----------------------------------------------------------------------------
(* The configuration *)

MissingSection(config) == \E i \in 1..Len(RequiredSections) : RequiredSections[i] \notin config

\* C12: a configuration that lacks any of the required sections 'trydan', 'mqtt'
\* or 'bridge' is a fatal configuration error raised before the core starts: no
\* device connect and no bus connect is attempted, nothing is published, and
\* the process exits with a non-zero status; nothing else exits with status 1,
\* and a configuration with the three sections is accepted.
C12_MissingSectionIsFatal ==
    /\ (last.op = "construct" /\ MissingSection(last.config)) =>
         /\ Stopped
         /\ exitCode = <<1>>
         /\ ~running
         /\ trydan = "None" /\ deviceConnected = "unknown"
         /\ mqtt_client = "None" /\ loop = "idle" /\ link = "none"
         /\ busCalls = <<>>
         /\ cycles = 0 /\ dataCount = 0
         /\ last.calls = <<>> /\ last.msgs = <<>>
         /\ \E i \in 1..Len(last.log) : last.log[i].level = "error"
    /\ (last.op = "construct" /\ ~MissingSection(last.config)) =>
         (pc = "constructed" /\ exitCode = <<>>)
    /\ exitCode = <<1>> => (last.op = "construct" /\ MissingSection(last.config))

\* the case of C12: the document has 'trydan' and 'mqtt' but no 'bridge', the
\* last section looked for
C12_Witness ==
    /\ last.op = "construct"
    /\ last.config = {"trydan", "mqtt"}
    /\ Stopped
    /\ exitCode = <<1>>

-----------------------------------------------------------------------------
(* Containment of failures *)

\* a poll cycle in which a publish call or the serialisation raised
PublishFailed(step) ==
    step.op = "poll" /\ step.read = "ok" /\ ~PublishedCleanly(step)

\* a command whose handling failed: unsupported name, payload that cannot be
\* coerced, device call that raised
CommandFailed(step) ==
    /\ step.op = "handle_command"
    /\ \E i \in 1..Len(step.log) : step.log[i].level \in {"warning", "error"}

\* C13: once Running, the failure of a publish call and the failure of the
\* handling of a command (unsupported name, coercion failure, device call that
\* raises) are contained: the step leaves the running flag as it was, stays in
\* the poll loop, runs no shutdown and publishes no 'offline'; the loop is left
\* only at the check of the flag or by the sleep raising; and after a command
\* that failed another command can still be handled, with the device call it
\* would have made otherwise.
C13_FailuresAreContained ==
    /\ [][(InLoop /\ (PublishFailed(last') \/ CommandFailed(last'))) =>
            /\ running' = running
            /\ pc' \in {"loop_top", "reading", "sleeping"}
            /\ exitCode' = <<>>
            /\ busCalls' = busCalls
            /\ loop' = loop
            /\ LastAvailability' = "online"]_vars
    /\ [][(pc = "reading" /\ pc' # pc) => (last'.op = "poll" /\ pc' = "sleeping")]_vars
    /\ [][(pc \in {"loop_top", "reading", "sleeping"} /\ pc' = "done") =>
            (pc # "reading" /\ last'.op \in {"shutdown", "loop_error"})]_vars
    /\ []((InLoop /\ CommandFailed(last)) =>
            \A command \in {"lock", "unlock"} :
               command # last.command => ENABLED CommandTask(command, <<>>, FALSE))
    /\ [][(InLoop /\ CommandFailed(last) /\ last'.op = "handle_command"
           /\ last' # last
           /\ last'.command \in {"pause_charge", "resume_charge", "lock", "unlock"}) =>
            last'.calls = <<SimpleCall(last'.command)>>]_vars

\* the case of C13: the publish of the first cycle raised, then the device
\* rejected a command during the sleep, and the loop is still running
C13_Witness ==
    /\ pc = "sleeping"
    /\ running
    /\ cycles = 1 /\ failStreak = 0 /\ dataCount = 0
    /\ CommandFailed(last)
    /\ last.calls # <<>>
    /\ LastAvailability = "online"

-----------------------------------------------------------------------------
(* Bus disconnect events *)

\* C14: a bus disconnect event while the controller is Running does not halt
\* the poll loop: the event leaves the running flag and the controller state as
\* they were (it only logs, a warning when the disconnect was not asked for and
\* nothing when it was), and the cycles that follow still read the device and
\* attempt to publish, whatever the state of the session.
C14_DisconnectDoesNotHaltLoop ==
    /\ [][(InLoop /\ last'.op = "on_disconnect" /\ busEvents' # busEvents) =>
            /\ pc' = pc
            /\ running' = running
            /\ exitCode' = exitCode
            /\ trydan' = trydan /\ mqtt_client' = mqtt_client /\ loop' = loop
            /\ busCalls' = busCalls
            /\ cycles' = cycles /\ failStreak' = failStreak /\ dataCount' = dataCount
            /\ last'.calls = <<>> /\ last'.msgs = <<>>
            /\ \A i \in 1..Len(last'.log) : last'.log[i].level = "warning"]_vars
    /\ [](OnMqttDisconnect(0) = <<>>)
    /\ []((last.op = "on_disconnect" /\ pc = "reading") =>
            ENABLED EndRead("ok", NoData, 0))
    /\ [][(last.op = "on_disconnect" /\ pc = "loop_top" /\ running /\ pc' # pc) =>
            pc' = "reading"]_vars
    /\ [][(pc = "reading" /\ last'.op = "poll" /\ last'.read = "ok") =>
            (last'.msgs # <<>> /\ pc' = "sleeping")]_vars

\* the case of C14: the session was lost and is not back yet, the flag is set
\* and the cycle has read the device and made its publish calls
C14_Witness ==
    /\ last.op = "poll" /\ last.read = "ok"
    /\ link = "handshake"
    /\ busEvents = 2
    /\ running
    /\ Len(last.msgs) = NumSensors(last.data) + 1

-----------------------------------------------------------------------------
(* Failed device reads *)

\* the keys of a snapshot, in the order _read_trydan_data fills them
SnapshotKeys(data) == [i \in 1..Len(data) |-> data[i][1]]

\* C15: a device read that fails produces no snapshot, never a partially
\* populated one (a snapshot has every field or does not exist), and the cycle
\* with the failed read publishes nothing at all: no per-field sensor message,
\* no /data message and no availability message. In particular a read failure
\* never turns the last availability value from 'online' to 'offline'.
C15_FailedReadPublishesNothing ==
    /\ [](last.op = "poll" =>
            /\ last.data = <<>> <=> last.read = "fail"
            /\ last.data # <<>> =>
                 SnapshotKeys(last.data) = <<"timestamp", "status", "charging_power",
                                             "locked", "firmware_version">>
            /\ last.read = "fail" =>
                 /\ last.msgs = <<>>
                 /\ last.calls = <<>>
                 /\ LastAvailability = "online"
                 /\ \A i \in 1..Len(last.log) : last.log[i].level \in {"error", "warning"})
    /\ [][(pc = "reading" /\ last'.op = "poll" /\ last'.read = "fail") =>
            /\ busCalls' = busCalls
            /\ dataCount' = dataCount
            /\ LastAvailability' = LastAvailability
            /\ link' = link]_vars

\* the case of C15: two reads in a row have failed and 'online' is still the
\* last availability value
C15_Witness ==
    /\ last.op = "poll" /\ last.read = "fail"
    /\ failStreak = 2
    /\ dataCount = 0
    /\ AvailabilityPayloads = <<"online">>

-----------------------------------------------------------------------------
(* Cooperative cancellation *)

\* C16: the running flag is the cooperative cancellation signal, looked at once
\* per loop iteration. Once a termination request has cleared the flag while
\* the controller is Running, nothing in the loop sets it again and no new
\* device read begins: a read begins only at the check of the flag and only
\* with the flag set, the check with the flag cleared goes to the shutdown, and
\* at most the cycle in flight completes. Every read and sleep in flight
\* returning in the end, the controller eventually reaches Stopped.
C16_FlagStopsTheLoop ==
    /\ [][(InLoop /\ ~running) => ~running']_vars
    /\ [][(pc # "reading" /\ pc' = "reading") => (pc = "loop_top" /\ running)]_vars
    /\ [][(pc = "loop_top" /\ ~running /\ pc' # pc) =>
            (pc' = "done" /\ last'.op = "shutdown")]_vars
    /\ [][(InLoop /\ ~running) => cycles' <= cycles + (IF pc = "reading" THEN 1 ELSE 0)]_vars
    /\ (InLoop /\ ~running) ~> Stopped

\* the case of C16: the request came during the loop, the cycle in flight was
\* completed and the check of the flag has ended the loop
C16_Witness ==
    /\ Stopped
    /\ last.op = "shutdown"
    /\ termRequested /\ ~running
    /\ cycles = 1 /\ dataCount = 1

\* C17 as stated: a termination request is never lost. A signal delivered after
\* construction but before the poll loop starts (during ConnectingDevice or
\* ConnectingBus, before run() sets the flag) still stops the controller: the
\* poll loop is never running with the flag set once a request was delivered.
C17_SignalNeverLost ==
    (termRequested /\ InLoop) => ~running

-----------------------------------------------------------------------------
(* Leaving the poll loop *)

IsLoopStop(c) == c.op = "loop_stop"

\* C18: every way of leaving the poll loop, the termination request seen at the
\* check of the flag and the exception that ends the loop, runs the shutdown
\* exactly once before Stopped: in the step that leaves the loop the 'offline'
\* availability publish is made, retained, and after it the disconnect of the
\* bus session (loop_stop, then disconnect unless loop_stop raised). The loop
\* is never left without these steps and they are never made twice or while
\* the loop goes on.
C18_LoopExitRunsShutdownOnce ==
    /\ [][(pc \in {"loop_top", "reading", "sleeping"} /\ pc' \notin {"loop_top", "reading", "sleeping"}) =>
            /\ pc' = "done"
            /\ \/ (pc = "loop_top" /\ ~running /\ last'.op = "shutdown")
               \/ (pc = "sleeping" /\ last'.op = "loop_error")
            /\ Count(busCalls, IsOffline) = 0 /\ Count(busCalls, IsLoopStop) = 0
            /\ Len(busCalls') >= Len(busCalls) + 2
            /\ IsOffline(busCalls'[Len(busCalls) + 1])
            /\ busCalls'[Len(busCalls) + 1].retain
            /\ IsLoopStop(busCalls'[Len(busCalls) + 2])
            /\ IF busCalls'[Len(busCalls) + 2].raised
               THEN Len(busCalls') = Len(busCalls) + 2
               ELSE /\ Len(busCalls') = Len(busCalls) + 3
                    /\ busCalls'[Len(busCalls) + 3].op = "disconnect"
                    /\ loop' = "stopped"]_vars
    /\ [](InLoop => (Count(busCalls, IsOffline) = 0 /\ Count(busCalls, IsLoopStop) = 0))
    /\ []((Stopped /\ BusStarted) =>
            /\ ShutdownRan
            /\ Count(busCalls, IsOffline) = 1
            /\ Count(busCalls, IsLoopStop) = 1
            /\ LastAvailability = "offline")
    /\ []((Stopped /\ ~BusStarted) => ~ShutdownRan)

\* the case of C18: the loop was ended by an exception, the flag still set, and
\* the shutdown has published 'offline' and disconnected the bus session
C18_Witness ==
    /\ Stopped
    /\ last.op = "loop_error"
    /\ running
    /\ cycles = 2
    /\ Count(busCalls, IsOffline) = 1
    /\ Last(busCalls) = BusCall("disconnect", "", FALSE, FALSE)

-----------------------------------------------------------------------------
(* Concurrent use of the device session *)

\* run() is suspended in get_data(): a device read is in flight
ReadInFlight == pc \in {"connect_trydan", "reading"}

\* the latest step was a command handler that made a device write
HandlerWrote == last.op = "handle_command" /\ Count(last.calls, IsWrite) > 0

-----------------------------------------------------------------------------
(* The order of the messages of a publish cycle *)

\* C20: within one publish cycle the /data message is published only after
\* every per-field sensor message of the cycle: whenever the /data publish call
\* of a cycle has been made, the per-field messages of all the fields of the
\* snapshot have been published before it, in the order of the fields; and a
\* cycle in which a publish call or the serialisation raises has published the
\* messages of the fields before the failure and no /data message.
C20_DataAfterEveryField ==
    (last.op = "poll" /\ last.read = "ok") =>
        LET fields == SelectSeq(last.data, NotTimestamp)
            n == Len(fields)
            m == Len(last.msgs)
        IN  /\ m \in 1..(n + 1)
            /\ \A i \in 1..m :
                 /\ i <= n => last.msgs[i].topic = TopicPrefix \o "/sensor/" \o fields[i][1]
                 /\ i = n + 1 => last.msgs[i].topic = TopicPrefix \o "/data"
                 /\ i < m => ~last.msgs[i].raised
            /\ Count(last.msgs, IsData) = 1 =>
                 (m = n + 1 /\ Count(last.msgs, IsSensor) = n /\ PublishedCleanly(last))
            /\ ~PublishedCleanly(last) =>
                 /\ Count(last.msgs, IsData) = 0
                 /\ Count(last.msgs, IsSensor) \in {m - 1, m}
                 /\ Count(last.msgs, IsSensor) <= n

\* the case of C20: the publish of the third field raised: two per-field
\* messages were published, no /data message
C20_Witness ==
    /\ last.op = "poll" /\ last.read = "ok"
    /\ Len(last.msgs) = 3
    /\ Count(last.msgs, IsSensor) = 2
    /\ last.msgs[3].raised
    /\ last.msgs[3].topic = "trydan/sensor/locked"
    /\ Count(last.msgs, IsData) = 0

====
